---- MODULE Spec2Model ----
(***************************************************************************)
(* A model of md2docx.py: the line loop of convert_markdown (the block     *)
(* parser) and the calls it makes on the document writer.                  *)
(*                                                                         *)
(* Text is modelled character by character on TLA+ strings (Len, SubSeq    *)
(* and \o act on them).  A TLA+ string literal cannot hold the backtick,   *)
(* so the character "~" stands for it throughout: Fence is the three       *)
(* backticks of a fence line.                                              *)
(***************************************************************************)
EXTENDS Integers, Sequences, FiniteSets, TLC

VARIABLES
    writer_class,     \* the writer_class argument: "DocxWriter" or "PdfWriter"
    lines,            \* f.readlines() followed by the appended ""
    pos,              \* index in lines of the line the for loop takes next
    in_code_block,
    in_mermaid_block,
    mermaid_lines,
    table_lines,
    code_buffer,
    pc,               \* "loop", "saved" (writer.save returned) or "raised"
    events,           \* the calls made on the writer, in order
    doc,              \* what the writer holds: the body of DocxWriter.doc
                      \* or PdfWriter.story, element by element
    handled,          \* history: for each consumed line, the branch that took
                      \* it, the outcome of the rendering it started and
                      \* whether the image file it names was found
    argv,             \* sys.argv[1:] of a command-line run
    args,             \* what parser.parse_args() returned, and whether
                      \* os.path.exists(input_file)
    exit_code,        \* <<>> while the process runs, <<n>> once it exited
    first_run,        \* history: the events and the end of the conversion
                      \* of the same lines with the other writer
    inline            \* one text given to the inline formatter of each
                      \* writer, and what each made of it

vars == <<writer_class, lines, pos, in_code_block, in_mermaid_block,
          mermaid_lines, table_lines, code_buffer, pc, events, doc, handled,
          argv, args, exit_code, first_run, inline>>

----------------------------------------------------------------------------
(* Bounds of the checked inputs.                                           *)

MaxFenceLines == 5
MaxTableLines == 3
MaxBlockLines == 2
MaxPageLines == 3
MaxArgs == 3
MaxCellLines == 3
MaxInlineTokens == 4

----------------------------------------------------------------------------
(* Python string operations.                                               *)

Char(s, i) == SubSeq(s, i, i)

Drop(s, n) == SubSeq(s, n + 1, Len(s))

StartsWith(s, p) == Len(s) >= Len(p) /\ SubSeq(s, 1, Len(p)) = p

EndsWith(s, p) == Len(s) >= Len(p) /\ SubSeq(s, Len(s) - Len(p) + 1, Len(s)) = p

Contains(s, sub) ==
    \E i \in 1..(Len(s) - Len(sub) + 1) : SubSeq(s, i, i + Len(sub) - 1) = sub

\* The least index at or after from where sub starts in s; 0 when there is none.
Find(s, sub, from) ==
    LET hits == {i \in from..(Len(s) - Len(sub) + 1) :
                     SubSeq(s, i, i + Len(sub) - 1) = sub}
    IN  IF hits = {} THEN 0 ELSE CHOOSE i \in hits : \A j \in hits : i <= j

Whitespace == {" ", "\t", "\n", "\r", "\f"}

Digits == {"0", "1", "2", "3", "4", "5", "6", "7", "8", "9"}

RECURSIVE RStripChars(_, _)
RStripChars(s, cs) ==
    IF Len(s) > 0 /\ Char(s, Len(s)) \in cs
    THEN RStripChars(SubSeq(s, 1, Len(s) - 1), cs)
    ELSE s

RECURSIVE LStripChars(_, _)
LStripChars(s, cs) ==
    IF Len(s) > 0 /\ Char(s, 1) \in cs
    THEN LStripChars(Drop(s, 1), cs)
    ELSE s

\* str.strip()
Strip(s) == LStripChars(RStripChars(s, Whitespace), Whitespace)

\* line.rstrip('\r\n')
RStripEOL(s) == RStripChars(s, {"\r", "\n"})

\* s.split('|')
RECURSIVE Split(_, _)
Split(s, d) ==
    LET i == Find(s, d, 1)
    IN  IF i = 0
        THEN <<s>>
        ELSE <<SubSeq(s, 1, i - 1)>> \o Split(Drop(s, i + Len(d) - 1), d)

NonEmptyStr(c) == c # ""

----------------------------------------------------------------------------
(* The characters and literals of the source.                              *)

Backtick == "~"

Fence == Backtick \o Backtick \o Backtick

MermaidFence == Fence \o "mermaid"

\* The text of the placeholder of line 628, up to the path it shows.
NotFoundPrefix == "[image not found: "

\* os.path.dirname(md_path) of the run.
MdDir == "docs"

----------------------------------------------------------------------------
(* The line as the loop sees it (lines 528-529).                           *)

RawLine(line) == RStripEOL(line)

StrippedLine(line) == Strip(RawLine(line))

IsFenceLine(s) == StartsWith(s, Fence)

IsMermaidFenceLine(s) == StartsWith(s, MermaidFence)

IsTableRow(s) == StartsWith(s, "|")

----------------------------------------------------------------------------
(* Table flush (lines 581-592).                                            *)

\* Mutant: the filter compares the row with the dashes instead of searching it.
IsDividerRowExact(r) == r = "---"

\* The filter of line 582 drops a row when this holds.
IsDividerRow(r) == Contains(r, "---")

WbRows(tl) == SelectSeq(tl, LAMBDA r : ~IsDividerRow(r))

\* [c for c in row.split('|') if c]
Segments(row_text) == SelectSeq(Split(row_text, "|"), NonEmptyStr)

TableCols(wb_rows) == Len(Segments(wb_rows[1]))

\* Mutant: the cells of the row as they are, neither padded nor cut.
RowCellsAsSplit(row_text, cols) ==
    LET segs == Segments(row_text)
    IN  [i \in 1..Len(segs) |-> Strip(segs[i])]

\* Lines 587-590: the stripped cells, padded with "" and cut to cols.
RowCells(row_text, cols) ==
    LET segs == Segments(row_text)
    IN  [i \in 1..cols |-> IF i <= Len(segs) THEN Strip(segs[i]) ELSE ""]

TableData(wb_rows) ==
    [k \in 1..Len(wb_rows) |-> RowCells(wb_rows[k], TableCols(wb_rows))]

\* The writer calls of one flush of the buffer tl at input line at.
FlushEvents(tl, at) ==
    LET wb_rows == WbRows(tl)
    IN  IF tl = <<>> \/ wb_rows = <<>>
        THEN <<>>
        ELSE <<[op |-> "add_table", at |-> at, rows |-> Len(wb_rows),
                cols |-> TableCols(wb_rows), data |-> TableData(wb_rows)]>>

\* PdfWriter.add_table divides 6.0 by cols (line 491).
AddTableRaises(wc, cols) == wc = "PdfWriter" /\ cols = 0

----------------------------------------------------------------------------
(* Classification of a non-blank line outside fences and tables            *)
(* (lines 597-632).                                                        *)

\* Mutant: the heading level is the count of '#' before the space, uncapped.
HeadingLevelUncapped(s) ==
    LET ns == {n \in 1..Len(s) : /\ \A k \in 1..n : Char(s, k) = "#"
                                 /\ StartsWith(Drop(s, n), " ")}
    IN  IF ns = {} THEN 0 ELSE CHOOSE n \in ns : TRUE

\* The heading tests of lines 598-605, in their order; 0 when none matches.
HeadingLevel(s) ==
    IF StartsWith(s, "# ") THEN 1
    ELSE IF StartsWith(s, "## ") THEN 2
    ELSE IF StartsWith(s, "### ") THEN 3
    ELSE IF StartsWith(s, "#### ") THEN 4
    ELSE 0

\* Line 608.
IsBulletItem(s) == StartsWith(s, "* ") \/ StartsWith(s, "- ")

\* Mutant: the marker may have any number of digits before ". ".
IsNumberItemAnyDigits(s) ==
    \E d \in 1..Len(s) :
        /\ \A k \in 1..d : Char(s, k) \in Digits
        /\ StartsWith(Drop(s, d), ". ")

\* Line 610: s[0].isdigit() and s[1:3] == '. '
IsNumberItem(s) ==
    /\ Len(s) >= 1
    /\ Char(s, 1) \in Digits
    /\ SubSeq(s, 2, IF Len(s) < 3 THEN Len(s) ELSE 3) = ". "

\* Line 614.
IsQuote(s) == StartsWith(s, "> ")

\* Line 618.
IsImageLine(s) == StartsWith(s, "![") /\ Contains(s, "](") /\ EndsWith(s, ")")

\* group(2) of re.match(r'!\[(.*?)\]\((.*?)\)', s) for a line IsImageLine holds of.
ImageTarget(s) ==
    LET open  == Find(s, "](", 3)
        close == Find(s, ")", open + 2)
    IN  SubSeq(s, open + 2, close - 1)

\* Mutant: the path is used as written, not joined to the document's directory.
ResolvePathAsWritten(image_path) == image_path

\* Lines 622-623.
ResolvePath(image_path) ==
    IF StartsWith(image_path, "/") THEN image_path
    ELSE IF MdDir = "" THEN image_path
    ELSE MdDir \o "/" \o image_path

\* Mutant: the final else of line 631 is missing, plain text reaches no call.
ClassifyEventsNoElse(s, at, exists, inserted) ==
    IF HeadingLevel(s) > 0
    THEN <<[op |-> "add_heading", at |-> at,
            text |-> Drop(s, HeadingLevel(s) + 1), level |-> HeadingLevel(s)]>>
    ELSE IF IsBulletItem(s)
    THEN <<[op |-> "add_paragraph", at |-> at,
            text |-> Drop(s, 2), style |-> "List Bullet"]>>
    ELSE IF IsNumberItem(s)
    THEN <<[op |-> "add_paragraph", at |-> at,
            text |-> Drop(s, 3), style |-> "List Number"]>>
    ELSE IF IsQuote(s)
    THEN <<[op |-> "add_quote", at |-> at, text |-> Drop(s, 2)]>>
    ELSE IF IsImageLine(s)
    THEN IF exists
         THEN <<[op |-> "add_image", at |-> at,
                 image_data |-> ResolvePath(ImageTarget(s)),
                 width_inches |-> 5, inserted |-> inserted]>>
         ELSE <<[op |-> "add_paragraph", at |-> at,
                 text |-> NotFoundPrefix \o ResolvePath(ImageTarget(s)) \o "]",
                 style |-> "None"]>>
    ELSE <<>>

\* The writer calls for the stripped, non-blank line s at input line at.
\* exists is os.path.exists of the resolved image path; inserted tells
\* whether the writer's add_image managed to place the picture.
ClassifyEvents(s, at, exists, inserted) ==
    IF HeadingLevel(s) > 0
    THEN <<[op |-> "add_heading", at |-> at,
            text |-> Drop(s, HeadingLevel(s) + 1), level |-> HeadingLevel(s)]>>
    ELSE IF IsBulletItem(s)
    THEN <<[op |-> "add_paragraph", at |-> at,
            text |-> Drop(s, 2), style |-> "List Bullet"]>>
    ELSE IF IsNumberItem(s)
    THEN <<[op |-> "add_paragraph", at |-> at,
            text |-> Drop(s, 3), style |-> "List Number"]>>
    ELSE IF IsQuote(s)
    THEN <<[op |-> "add_quote", at |-> at, text |-> Drop(s, 2)]>>
    ELSE IF IsImageLine(s)
    THEN IF exists
         THEN <<[op |-> "add_image", at |-> at,
                 image_data |-> ResolvePath(ImageTarget(s)),
                 width_inches |-> 5, inserted |-> inserted]>>
         ELSE <<[op |-> "add_paragraph", at |-> at,
                 text |-> NotFoundPrefix \o ResolvePath(ImageTarget(s)) \o "]",
                 style |-> "None"]>>
    ELSE <<[op |-> "add_paragraph", at |-> at, text |-> s, style |-> "None"]>>

----------------------------------------------------------------------------
(* The writers (lines 94-253 and 255-507): what each call adds to the      *)
(* document.  An element is [kind, at, page_break]; at is the input line   *)
(* whose handling made the call.                                           *)

\* config['fonts']['heading'].get('page_break_level', 2)
BreakLevel == 2

Element(kind, at) == [kind |-> kind, at |-> at, page_break |-> FALSE]

\* len(self.doc.paragraphs): headings, placeholders and the paragraph that
\* holds a picture are paragraphs of the body.
DocxParagraphs(d) ==
    SelectSeq(d, LAMBDA el :
        el.kind \in {"heading", "paragraph", "placeholder", "picture"})

\* len(self.doc.tables)
DocxTables(d) == SelectSeq(d, LAMBDA el : el.kind = "table")

\* Line 144.
DocxIsFirst(d) == Len(DocxParagraphs(d)) = 0 /\ Len(DocxTables(d)) = 0

\* Line 170.
DocxPageBreak(level, d) == level <= BreakLevel /\ ~DocxIsFirst(d)

\* Mutant: the test for an empty story is left out.
PdfUsePageBreakAlways(level, story) == level <= BreakLevel

\* Line 412.
PdfUsePageBreak(level, story) == level <= BreakLevel /\ Len(story) > 0

\* DocxWriter: the elements one call adds to the body d.
DocxAdds(d, e) ==
    CASE e.op = "add_heading" ->
           <<[kind |-> "heading", at |-> e.at,
              page_break |-> DocxPageBreak(e.level, d)]>>
      [] e.op = "add_paragraph" -> <<Element("paragraph", e.at)>>
      [] e.op = "add_quote" -> <<Element("paragraph", e.at)>>
      [] e.op = "add_image" ->
           IF e.inserted THEN <<Element("picture", e.at)>>
           ELSE <<Element("placeholder", e.at)>>
      [] e.op = "add_table" ->
           <<Element("table", e.at), Element("paragraph", e.at)>>
      [] e.op = "add_code_block" ->
           IF e.lines = <<>> THEN <<>> ELSE <<Element("table", e.at)>>
      [] OTHER -> <<>>

\* PdfWriter: the flowables one call appends to the story.
PdfAdds(story, e) ==
    CASE e.op = "add_heading" ->
           <<[kind |-> "heading", at |-> e.at,
              page_break |-> PdfUsePageBreak(e.level, story)]>>
             \o (IF e.level <= 2
                 THEN <<Element("drawing", e.at), Element("spacer", e.at)>>
                 ELSE <<>>)
      [] e.op = "add_paragraph" ->
           <<Element("paragraph", e.at), Element("spacer", e.at)>>
      [] e.op = "add_quote" ->
           <<Element("paragraph", e.at), Element("spacer", e.at)>>
      [] e.op = "add_image" ->
           IF e.inserted
           THEN <<Element("image", e.at), Element("spacer", e.at)>>
           ELSE <<>>
      [] e.op = "add_table" ->
           IF AddTableRaises("PdfWriter", e.cols) THEN <<>>
           ELSE <<Element("table", e.at), Element("spacer", e.at)>>
      [] e.op = "add_code_block" ->
           IF e.lines = <<>> THEN <<>>
           ELSE <<Element("spacer", e.at), Element("paragraph", e.at),
                  Element("spacer", e.at)>>
      [] OTHER -> <<>>

WriterAdds(wc, d, e) == IF wc = "PdfWriter" THEN PdfAdds(d, e) ELSE DocxAdds(d, e)

\* The document after the calls evs, made in order.
RECURSIVE WriterApply(_, _, _)
WriterApply(wc, d, evs) ==
    IF evs = <<>> THEN d
    ELSE WriterApply(wc, d \o WriterAdds(wc, d, Head(evs)), Tail(evs))

----------------------------------------------------------------------------
(* Inputs.                                                                 *)

\* Fences, fence content with surrounding blanks, and a table row.
FencePool == {Fence, MermaidFence, "  a ", "|r|"}

\* Table rows, a divider row, a bare pipe, a blank line and a paragraph.
TablePool == {"|A|B|", "|---|---|", "|1|2|", "|", "", "p"}

\* One line of each block kind and the near misses of each test.
BlockPool == {"# A", "## B", "### C", "#### D", "##### E", "#F",
              "- item", "* s", "1. item", "10. item", "> q",
              "![x](m.png)", "![y](/abs.png)", "p"}

\* An empty code fence, headings at and above the break level, an image.
PagePool == {Fence, "# A", "### C", "![x](m.png)", "p"}

\* Rows with dashes inside a cell, with an empty cell, shorter and longer than
\* the first row.
CellPool == {"|A|B|", "|a---b|", "|a||b|", "|1|", "|1|2|3|", "p"}

SeqsUpTo(S, n) == UNION {[1..k -> S] : k \in 0..n}

Contents ==
    SeqsUpTo(FencePool, MaxFenceLines)
        \cup SeqsUpTo(TablePool, MaxTableLines)
        \cup SeqsUpTo(BlockPool, MaxBlockLines)
        \cup SeqsUpTo(PagePool, MaxPageLines)
        \cup SeqsUpTo(CellPool, MaxCellLines)

\* f.readlines(): every line keeps its "\n", the last one only when the
\* file ends with a newline.
ReadLines(content, final_newline) ==
    [i \in 1..Len(content) |->
        IF i < Len(content) \/ final_newline
        THEN content[i] \o "\n" ELSE content[i]]

RenderOutcomes == {"image", "non_image", "error"}

----------------------------------------------------------------------------
(* convert_markdown.                                                       *)

\* No command line was parsed: convert_markdown is called as a function.
NoArgs ==
    [parsed |-> "none", input_file |-> "", output_file |-> "", pdf |-> FALSE,
     found |-> FALSE]

\* No text was given to the inline formatters.
NoInline == [text |-> "", runs |-> <<>>, markup |-> "", done |-> {}]

\* No other conversion of the same lines is on record.
NoRun == [done |-> FALSE, events |-> <<>>, pc |-> "none"]

Init ==
    /\ writer_class \in {"DocxWriter", "PdfWriter"}
    /\ argv = <<>>
    /\ args = NoArgs
    /\ exit_code = <<>>
    /\ first_run = NoRun
    /\ inline = NoInline
    /\ \E content \in Contents, final_newline \in BOOLEAN :
          /\ IF final_newline \/ Len(content) = 0 THEN TRUE
             ELSE content[Len(content)] # ""
          /\ lines = ReadLines(content, final_newline) \o <<"">>
    /\ pos = 1
    /\ in_code_block = FALSE
    /\ in_mermaid_block = FALSE
    /\ mermaid_lines = <<>>
    /\ table_lines = <<>>
    /\ code_buffer = <<>>
    /\ pc = "loop"
    /\ events = <<>>
    /\ doc = <<>>
    /\ handled = <<>>

\* The for loop has a line to take.
InLoop == pc = "loop" /\ pos <= Len(lines)

\* Mutant: save also runs after an exception, as from a finally clause.
LoopDoneOrRaised == (pc = "loop" /\ pos > Len(lines)) \/ pc = "raised"

\* The for loop is exhausted (line 525), so line 634 runs.
LoopDone == pc = "loop" /\ pos > Len(lines)

Took(branch, render) ==
    /\ pos' = pos + 1
    /\ handled' = Append(handled, [branch |-> branch, render |-> render,
                                   found |-> "none"])

\* The same for a line of the classification; found is "yes" or "no" for an
\* image line (os.path.exists, line 625) and "none" for any other line.
TookBlock(found) ==
    /\ pos' = pos + 1
    /\ handled' = Append(handled, [branch |-> "block", render |-> "none",
                                   found |-> found])

\* The writer has carried out the calls this step made.
Wrote ==
    doc' = WriterApply(writer_class, doc,
                       SubSeq(events', Len(events) + 1, Len(events')))

\* Lines 533-536.
MermaidOpen ==
    /\ InLoop
    /\ IsMermaidFenceLine(StrippedLine(lines[pos]))
    /\ in_mermaid_block' = TRUE
    /\ mermaid_lines' = <<>>
    /\ Took("mermaid_open", "none")
    /\ UNCHANGED <<inline, argv, args, exit_code, first_run, writer_class,
                   lines, in_code_block, table_lines,
                   code_buffer, pc, events, doc>>

\* The writer calls of lines 540-554 for one outcome of the rendering:
\* "image" (the service answered with a picture the writer places),
\* "non_image" (the service answered, the writer's add_image could not place
\* the bytes and caught its own exception, lines 189-193 and 467-480),
\* "error" (an exception inside the try block before add_image returned).
RenderEvents(ml, at, outcome) ==
    IF outcome = "error"
    THEN <<[op |-> "add_code_block", at |-> at, lines |-> ml]>>
    ELSE <<[op |-> "add_image", at |-> at, image_data |-> "BytesIO",
            width_inches |-> 6, inserted |-> (outcome = "image")]>>

\* Lines 538-555.
MermaidClose ==
    /\ InLoop
    /\ IsFenceLine(StrippedLine(lines[pos]))
    /\ ~IsMermaidFenceLine(StrippedLine(lines[pos]))
    /\ in_mermaid_block
    /\ in_mermaid_block' = FALSE
    /\ \E outcome \in RenderOutcomes \cup {"none"} :
          /\ (outcome = "none") <=> (mermaid_lines = <<>>)
          /\ events' = IF mermaid_lines = <<>> THEN events
                        ELSE events \o RenderEvents(mermaid_lines, pos, outcome)
          /\ Took("mermaid_close", outcome)
    /\ Wrote
    /\ UNCHANGED <<inline, argv, args, exit_code, first_run, writer_class,
                   lines, in_code_block, mermaid_lines,
                   table_lines, code_buffer, pc>>

\* Lines 557-561.
CodeClose ==
    /\ InLoop
    /\ IsFenceLine(StrippedLine(lines[pos]))
    /\ ~IsMermaidFenceLine(StrippedLine(lines[pos]))
    /\ ~in_mermaid_block
    /\ in_code_block
    /\ events' = Append(events, [op |-> "add_code_block", at |-> pos,
                                  lines |-> code_buffer])
    /\ code_buffer' = <<>>
    /\ in_code_block' = FALSE
    /\ Took("code_close", "none")
    /\ Wrote
    /\ UNCHANGED <<inline, argv, args, exit_code, first_run, writer_class,
                   lines, in_mermaid_block, mermaid_lines,
                   table_lines, pc>>

\* Lines 562-565.
CodeOpen ==
    /\ InLoop
    /\ IsFenceLine(StrippedLine(lines[pos]))
    /\ ~IsMermaidFenceLine(StrippedLine(lines[pos]))
    /\ ~in_mermaid_block
    /\ ~in_code_block
    /\ in_code_block' = TRUE
    /\ Took("code_open", "none")
    /\ UNCHANGED <<inline, argv, args, exit_code, first_run, writer_class,
                   lines, in_mermaid_block, mermaid_lines,
                   table_lines, code_buffer, pc, events, doc>>

\* Lines 567-569.
MermaidAppend ==
    /\ InLoop
    /\ ~IsFenceLine(StrippedLine(lines[pos]))
    /\ in_mermaid_block
    /\ mermaid_lines' = Append(mermaid_lines, RawLine(lines[pos]))
    /\ Took("mermaid_append", "none")
    /\ UNCHANGED <<inline, argv, args, exit_code, first_run, writer_class,
                   lines, in_code_block, in_mermaid_block,
                   table_lines, code_buffer, pc, events, doc>>

\* Lines 571-574.
CodeAppend ==
    /\ InLoop
    /\ ~IsFenceLine(StrippedLine(lines[pos]))
    /\ ~in_mermaid_block
    /\ in_code_block
    /\ code_buffer' = Append(code_buffer, RawLine(lines[pos]))
    /\ Took("code_append", "none")
    /\ UNCHANGED <<inline, argv, args, exit_code, first_run, writer_class,
                   lines, in_code_block, in_mermaid_block,
                   mermaid_lines, table_lines, pc, events, doc>>

\* The line reaches the table test of line 577.
AtTableTest ==
    /\ InLoop
    /\ ~IsFenceLine(StrippedLine(lines[pos]))
    /\ ~in_mermaid_block
    /\ ~in_code_block

\* Lines 577-579.
TableAppend ==
    /\ AtTableTest
    /\ IsTableRow(StrippedLine(lines[pos]))
    /\ table_lines' = Append(table_lines, StrippedLine(lines[pos]))
    /\ Took("table_append", "none")
    /\ UNCHANGED <<inline, argv, args, exit_code, first_run, writer_class,
                   lines, in_code_block, in_mermaid_block,
                   mermaid_lines, code_buffer, pc, events, doc>>

\* The flush of lines 581-592 calls add_table and the writer raises.
FlushRaises ==
    /\ FlushEvents(table_lines, pos) # <<>>
    /\ AddTableRaises(writer_class, FlushEvents(table_lines, pos)[1].cols)

\* Lines 580-632 for a line that is no table row: the flush of the table
\* buffer, the skip of a blank line, the classification.
BlockLine ==
    /\ AtTableTest
    /\ ~IsTableRow(StrippedLine(lines[pos]))
    /\ ~FlushRaises
    /\ table_lines' = <<>>
    /\ \E exists \in BOOLEAN, inserted \in BOOLEAN :
          /\ events' = events \o FlushEvents(table_lines, pos)
                         \o (IF StrippedLine(lines[pos]) = "" THEN <<>>
                             ELSE ClassifyEvents(StrippedLine(lines[pos]), pos,
                                                 exists, inserted))
          /\ TookBlock(IF ~IsImageLine(StrippedLine(lines[pos])) THEN "none"
                       ELSE IF exists THEN "yes" ELSE "no")
    /\ Wrote
    /\ UNCHANGED <<inline, argv, args, exit_code, first_run, writer_class,
                   lines, in_code_block, in_mermaid_block,
                   mermaid_lines, code_buffer, pc>>

\* Line 591 raises inside the writer: the exception leaves convert_markdown.
TableRaise ==
    /\ AtTableTest
    /\ ~IsTableRow(StrippedLine(lines[pos]))
    /\ FlushRaises
    /\ events' = events \o FlushEvents(table_lines, pos)
    /\ pc' = "raised"
    /\ Wrote
    /\ UNCHANGED <<inline, argv, args, exit_code, first_run, writer_class,
                   lines, pos, in_code_block, in_mermaid_block,
                   mermaid_lines, table_lines, code_buffer, handled>>

\* Mutant: a fence that is still open is flushed before the save.
SaveCallsFlushing(at) ==
    (IF in_mermaid_block /\ mermaid_lines # <<>>
     THEN <<[op |-> "add_code_block", at |-> at, lines |-> mermaid_lines]>>
     ELSE <<>>)
    \o (IF in_code_block
        THEN <<[op |-> "add_code_block", at |-> at, lines |-> code_buffer]>>
        ELSE <<>>)
    \o <<[op |-> "save", at |-> at]>>

\* The writer calls after the loop: line 634 and nothing else.
SaveCalls(at) == <<[op |-> "save", at |-> at]>>

\* Line 634.
Save ==
    /\ LoopDone
    /\ events' = events \o SaveCalls(pos)
    /\ pc' = "saved"
    /\ Wrote
    /\ UNCHANGED <<inline, argv, args, exit_code, first_run, writer_class,
                   lines, pos, in_code_block, in_mermaid_block,
                   mermaid_lines, table_lines, code_buffer, handled>>

Next ==
    \/ MermaidOpen
    \/ MermaidClose
    \/ CodeClose
    \/ CodeOpen
    \/ MermaidAppend
    \/ CodeAppend
    \/ TableAppend
    \/ BlockLine
    \/ TableRaise
    \/ Save

Spec == Init /\ [][Next]_vars

----------------------------------------------------------------------------
(* Two conversions of the same file, first with DocxWriter and then with   *)
(* PdfWriter.                                                              *)

InitPair == Init /\ writer_class = "DocxWriter"

\* The first conversion has ended; convert_markdown is called again on the
\* same file with PdfWriter (lines 510-523 start from fresh state).
Restart ==
    /\ pc \in {"saved", "raised"}
    /\ ~first_run.done
    /\ first_run' = [done |-> TRUE, events |-> events, pc |-> pc]
    /\ writer_class' = "PdfWriter"
    /\ pos' = 1
    /\ in_code_block' = FALSE
    /\ in_mermaid_block' = FALSE
    /\ mermaid_lines' = <<>>
    /\ table_lines' = <<>>
    /\ code_buffer' = <<>>
    /\ pc' = "loop"
    /\ events' = <<>>
    /\ doc' = <<>>
    /\ handled' = <<>>
    /\ UNCHANGED <<inline, lines, argv, args, exit_code>>

NextPair == Next \/ Restart

SpecPair == InitPair /\ [][NextPair]_vars

----------------------------------------------------------------------------
(* The command line (lines 636-692).                                       *)

ArgPool == {"--version", "--pdf", "--bogus", "in.md", "o.PDF", "o.docx"}

\* The files the command-line runs read.
CliContents ==
    {<<>>, <<"p">>, <<"|">>, <<"|A|B|", "p">>, <<Fence, "p", Fence>>,
     <<MermaidFence, "p", Fence>>}

UpperCase == "ABCDEFGHIJKLMNOPQRSTUVWXYZ"

LowerCase == "abcdefghijklmnopqrstuvwxyz"

\* str.lower()
RECURSIVE Lower(_)
Lower(s) ==
    IF s = "" THEN ""
    ELSE LET i == Find(UpperCase, Char(s, 1), 1)
         IN  (IF i = 0 THEN Char(s, 1) ELSE Char(LowerCase, i))
                 \o Lower(Drop(s, 1))

\* s.rfind(c) + 1: the greatest index of c in s, 0 when there is none.
RFind(s, c) ==
    LET hits == {i \in 1..Len(s) : Char(s, i) = c}
    IN  IF hits = {} THEN 0 ELSE CHOOSE i \in hits : \A j \in hits : j <= i

\* os.path.splitext(p)[0]
SplitextBase(p) ==
    LET sep == RFind(p, "/")
        dot == RFind(p, ".")
    IN  IF dot > sep /\ \E k \in (sep + 1)..(dot - 1) : Char(p, k) # "."
        THEN SubSeq(p, 1, dot - 1)
        ELSE p

\* Mutant: the usage block of lines 640-653 is never taken.
NoArgumentsNever(av) == FALSE

\* Line 640: len(sys.argv) < 2.
NoArguments(av) == Len(av) < 1

IsOption(a) == StartsWith(a, "-")

Positionals(av) == SelectSeq(av, LAMBDA a : ~IsOption(a))

\* The two positionals stand side by side on the command line.
Adjacent(av) ==
    \E i \in 1..(Len(av) - 1) : ~IsOption(av[i]) /\ ~IsOption(av[i + 1])

\* parser.parse_args() (lines 655-664): "version" when --version (or the
\* parser's own -h, --help) prints and exits, "usage" when the parser rejects
\* the command line with parser.error, "ok" when it returns the namespace.
\* An option that stands between the two positionals makes the parser reject
\* the second one or accept it, depending on the argparse of the Python that
\* runs the program.
ParseOutcomes(av) ==
    IF \E i \in 1..Len(av) : av[i] \in {"--version", "-h", "--help"}
    THEN {"version"}
    ELSE IF \E i \in 1..Len(av) : IsOption(av[i]) /\ av[i] # "--pdf"
    THEN {"usage"}
    ELSE IF Len(Positionals(av)) = 0 \/ Len(Positionals(av)) > 2
    THEN {"usage"}
    ELSE IF Len(Positionals(av)) = 2 /\ ~Adjacent(av)
    THEN {"usage", "ok"}
    ELSE {"ok"}

\* The namespace of a command line the parser accepts.
Namespace(av, exists) ==
    [parsed |-> "ok",
     input_file |-> Positionals(av)[1],
     output_file |-> IF Len(Positionals(av)) = 2 THEN Positionals(av)[2]
                     ELSE "",
     pdf |-> \E i \in 1..Len(av) : av[i] = "--pdf",
     found |-> exists]

\* Lines 670-679: to_pdf.
ToPdf(a) ==
    a.pdf \/ (a.output_file # "" /\ EndsWith(Lower(a.output_file), ".pdf"))

\* Lines 670-675: output_file.
OutputFile(a) ==
    IF a.output_file # "" THEN a.output_file
    ELSE SplitextBase(a.input_file) \o (IF a.pdf THEN ".pdf" ELSE ".docx")

InitCli ==
    /\ writer_class = "DocxWriter"
    /\ argv \in SeqsUpTo(ArgPool, MaxArgs)
    /\ args = NoArgs
    /\ exit_code = <<>>
    /\ first_run = NoRun
    /\ inline = NoInline
    /\ \E content \in CliContents, final_newline \in BOOLEAN :
          /\ IF final_newline \/ Len(content) = 0 THEN TRUE
             ELSE content[Len(content)] # ""
          /\ lines = ReadLines(content, final_newline) \o <<"">>
    /\ pos = 1
    /\ in_code_block = FALSE
    /\ in_mermaid_block = FALSE
    /\ mermaid_lines = <<>>
    /\ table_lines = <<>>
    /\ code_buffer = <<>>
    /\ pc = "cli"
    /\ events = <<>>
    /\ doc = <<>>
    /\ handled = <<>>

\* Lines 640-653.
Usage ==
    /\ pc = "cli"
    /\ NoArguments(argv)
    /\ exit_code' = <<1>>
    /\ pc' = "exited"
    /\ UNCHANGED <<inline, writer_class, lines, pos, in_code_block, in_mermaid_block,
                   mermaid_lines, table_lines, code_buffer, events, doc,
                   handled, argv, args, first_run>>

\* Line 664 when parse_args leaves the process: sys.exit(0) after --version,
\* sys.exit(2) from parser.error.
ParseExit ==
    /\ pc = "cli"
    /\ ~NoArguments(argv)
    /\ \E o \in ParseOutcomes(argv) \ {"ok"} :
          /\ args' = [NoArgs EXCEPT !.parsed = o]
          /\ exit_code' = IF o = "version" THEN <<0>> ELSE <<2>>
    /\ pc' = "exited"
    /\ UNCHANGED <<inline, writer_class, lines, pos, in_code_block, in_mermaid_block,
                   mermaid_lines, table_lines, code_buffer, events, doc,
                   handled, argv, first_run>>

\* Lines 664-681 when parse_args returns.
ParseArgs ==
    /\ pc = "cli"
    /\ ~NoArguments(argv)
    /\ "ok" \in ParseOutcomes(argv)
    /\ \E exists \in BOOLEAN :
          args' = [Namespace(argv, exists) EXCEPT
                       !.output_file = OutputFile(Namespace(argv, exists)),
                       !.pdf = ToPdf(Namespace(argv, exists))]
    /\ pc' = "parsed"
    /\ UNCHANGED <<inline, writer_class, lines, pos, in_code_block, in_mermaid_block,
                   mermaid_lines, table_lines, code_buffer, events, doc,
                   handled, argv, exit_code, first_run>>

\* Lines 690-692.
NotFound ==
    /\ pc = "parsed"
    /\ ~args.found
    /\ exit_code' = <<1>>
    /\ pc' = "exited"
    /\ UNCHANGED <<inline, writer_class, lines, pos, in_code_block, in_mermaid_block,
                   mermaid_lines, table_lines, code_buffer, events, doc,
                   handled, argv, args, first_run>>

\* Lines 681-686: convert_markdown is called and its writer is constructed.
StartConvert ==
    /\ pc = "parsed"
    /\ args.found
    /\ writer_class' = IF args.pdf THEN "PdfWriter" ELSE "DocxWriter"
    /\ pc' = "loop"
    /\ UNCHANGED <<inline, lines, pos, in_code_block, in_mermaid_block,
                   mermaid_lines, table_lines, code_buffer, events, doc,
                   handled, argv, args, exit_code, first_run>>

\* Lines 256-266: PdfWriter() raises ImportError when ReportLab is missing.
ConstructRaises ==
    /\ pc = "parsed"
    /\ args.found
    /\ args.pdf
    /\ writer_class' = "PdfWriter"
    /\ pc' = "raised"
    /\ UNCHANGED <<inline, lines, pos, in_code_block, in_mermaid_block,
                   mermaid_lines, table_lines, code_buffer, events, doc,
                   handled, argv, args, exit_code, first_run>>

\* Lines 687-689.
Caught ==
    /\ pc = "raised"
    /\ exit_code = <<>>
    /\ exit_code' = <<1>>
    /\ UNCHANGED <<inline, writer_class, lines, pos, in_code_block, in_mermaid_block,
                   mermaid_lines, table_lines, code_buffer, pc, events, doc,
                   handled, argv, args, first_run>>

\* convert_markdown returned and the script ends.
Finished ==
    /\ pc = "saved"
    /\ exit_code = <<>>
    /\ exit_code' = <<0>>
    /\ UNCHANGED <<inline, writer_class, lines, pos, in_code_block, in_mermaid_block,
                   mermaid_lines, table_lines, code_buffer, pc, events, doc,
                   handled, argv, args, first_run>>

NextCli ==
    \/ Usage
    \/ ParseExit
    \/ ParseArgs
    \/ NotFound
    \/ StartConvert
    \/ ConstructRaises
    \/ Caught
    \/ Finished
    \/ Next

SpecCli == InitCli /\ [][NextCli]_vars

----------------------------------------------------------------------------
(* Vocabulary of the properties.                                           *)

EventsOf(op) == SelectSeq(events, LAMBDA e : e.op = op)

\* The calls made while input line i was handled.
EventsAt(i) == SelectSeq(events, LAMBDA e : e.at = i)

\* The same, without the table flushed from the buffer at that line.
BlockEventsAt(i) == SelectSeq(events, LAMBDA e : e.at = i /\ e.op # "add_table")

Consumed == 1..Len(handled)

PipeAt(i) == IsTableRow(StrippedLine(lines[i]))

\* First lines of the maximal contiguous runs of pipe-prefixed lines.
RunStarts == {i \in 1..Len(lines) : PipeAt(i) /\ (i = 1 \/ ~PipeAt(i - 1))}

RunOf(i) == {j \in i..Len(lines) : \A k \in i..j : PipeAt(k)}

\* A divider row in the glossary's sense: separator characters only.
SeparatorOnly(r) ==
    /\ \A k \in 1..Len(r) : Char(r, k) \in {"|", "-", ":", " "}
    /\ Contains(r, "-")

DividerOnlyRuns ==
    {i \in RunStarts : \A j \in RunOf(i) : SeparatorOnly(StrippedLine(lines[j]))}

\* Every pipe-prefixed line of the input was taken as a table row.
NoRowInsideFence ==
    \A i \in Consumed : PipeAt(i) => handled[i].branch = "table_append"

\* The input lines strictly between lines i and j, terminators stripped.
Between(i, j) == [k \in 1..(j - i - 1) |-> RStripEOL(lines[i + k])]

FenceAt(i) == IsFenceLine(StrippedLine(lines[i]))

----------------------------------------------------------------------------
(* C1: once the conversion has saved, the number of add_table calls equals *)
(* the number of maximal runs of pipe-prefixed lines minus the runs made   *)
(* of divider rows only.  Stated for the inputs none of whose              *)
(* pipe-prefixed lines lies inside a fence.                                *)
C1_TableCountEqualsRuns ==
    (pc = "saved" /\ NoRowInsideFence) =>
        Len(EventsOf("add_table"))
            = Cardinality(RunStarts) - Cardinality(DividerOnlyRuns)

(* C2: the parser is in one mode at a time: in_code_block and              *)
(* in_mermaid_block are never both true, and no fence is active while the  *)
(* table buffer holds rows.                                                *)
C2_OneModeAtATime ==
    /\ ~(in_code_block /\ in_mermaid_block)
    /\ ~(in_code_block /\ table_lines # <<>>)
    /\ ~(in_mermaid_block /\ table_lines # <<>>)

(* C3: code fence round trip: the lines a closing code fence passes to     *)
(* add_code_block are the input lines strictly between that fence line and *)
(* an earlier fence line, terminators stripped and nothing else.           *)
C3_CodeFenceRoundTrip ==
    \A n \in 1..Len(events) :
        (events[n].op = "add_code_block"
            /\ handled[events[n].at].branch = "code_close") =>
        \E i \in 1..(events[n].at - 1) :
            FenceAt(i) /\ events[n].lines = Between(i, events[n].at)

(* C4: once the loop has handled a line that does not start with a pipe    *)
(* (a blank line or a fence line included), the table buffer is empty.     *)
C4_FlushedAtNonPipeLine ==
    (pos > 1 /\ ~PipeAt(pos - 1)) => table_lines = <<>>

(* C5: when writer.save has been called the table buffer is empty: no      *)
(* buffered row is lost at the end of the input.                           *)
C5_TableFlushedAtSave ==
    pc = "saved" => table_lines = <<>>

\* The source lines of the diagram fence that input line i closes.
DiagramSource(i) ==
    LET opens == {j \in 1..(i - 1) : handled[j].branch = "mermaid_open"}
        o     == CHOOSE j \in opens : \A k \in opens : k <= j
    IN  Between(o, i)

(* C6: when a diagram fence closes and the rendering fails (an error on    *)
(* the way, or an answer the writer cannot insert as a picture), the       *)
(* fallback add_code_block is called with the diagram's source lines.      *)
C6_RenderFailureFallsBack ==
    \A i \in Consumed :
        handled[i].render \in {"error", "non_image"} =>
            \E n \in 1..Len(events) :
                /\ events[n].op = "add_code_block"
                /\ events[n].at = i
                /\ events[n].lines = DiagramSource(i)

\* The same for the failures that raise inside the try block.
C6_RaisedFailureFallsBack ==
    \A i \in Consumed :
        handled[i].render = "error" =>
            EventsAt(i) = <<[op |-> "add_code_block", at |-> i,
                             lines |-> DiagramSource(i)]>>

(* C7: save is called at most once, only after every input line has been   *)
(* consumed, as the last writer call; a run that raised has not saved, and *)
(* a run that completed has saved exactly once.                            *)
C7_SaveOnceAtEnd ==
    /\ Len(EventsOf("save")) <= 1
    /\ Len(EventsOf("save")) = 1 =>
          /\ pc = "saved"
          /\ events[Len(events)].op = "save"
          /\ pos = Len(lines) + 1
          /\ Len(handled) = Len(lines)
    /\ pc = "raised" => Len(EventsOf("save")) = 0
    /\ pc = "saved" => Len(EventsOf("save")) = 1

\* A completed run whose save follows other writer calls.
C7_Witness ==
    /\ pc = "saved"
    /\ Len(events) >= 3
    /\ events[Len(events)].op = "save"

\* The number of '#' characters s starts with.
RECURSIVE LeadingHashes(_)
LeadingHashes(s) ==
    IF Len(s) > 0 /\ Char(s, 1) = "#" THEN 1 + LeadingHashes(Drop(s, 1)) ELSE 0

(* C8: a line handled in Normal state that starts with n '#' (1 <= n <= 4) *)
(* and a space emits add_heading(remainder, n) and nothing else; a line    *)
(* that starts with five '#' emits add_paragraph with the whole trimmed    *)
(* line.                                                                   *)
C8_HeadingLevels ==
    \A i \in Consumed :
        handled[i].branch = "block" =>
            LET s == StrippedLine(lines[i])
                n == LeadingHashes(s)
            IN  /\ (n \in 1..4 /\ Char(s, n + 1) = " ") =>
                      BlockEventsAt(i) =
                          <<[op |-> "add_heading", at |-> i,
                             text |-> Drop(s, n + 1), level |-> n]>>
                /\ n >= 5 =>
                      BlockEventsAt(i) =
                          <<[op |-> "add_paragraph", at |-> i,
                             text |-> s, style |-> "None"]>>

\* One run with a level-4 heading and a five-'#' line turned paragraph.
C8_Witness ==
    /\ pc = "saved"
    /\ \E n \in 1..Len(events) :
          /\ events[n].op = "add_heading"
          /\ events[n].level = 4
          /\ events[n].text = "D"
    /\ \E n \in 1..Len(events) :
          /\ events[n].op = "add_paragraph"
          /\ events[n].text = "##### E"

\* The number of digit characters s starts with.
RECURSIVE LeadingDigits(_)
LeadingDigits(s) ==
    IF Len(s) > 0 /\ Char(s, 1) \in Digits
    THEN 1 + LeadingDigits(Drop(s, 1)) ELSE 0

(* C9: a line handled in Normal state that starts with "* " or "- " emits  *)
(* an unordered list item with the remainder; one digit followed by ". "   *)
(* emits an ordered list item with the text after ". "; a marker of two or *)
(* more digits emits a paragraph with the whole line.                      *)
C9_ListItems ==
    \A i \in Consumed :
        handled[i].branch = "block" =>
            LET s == StrippedLine(lines[i])
                d == LeadingDigits(s)
            IN  /\ (StartsWith(s, "* ") \/ StartsWith(s, "- ")) =>
                      BlockEventsAt(i) =
                          <<[op |-> "add_paragraph", at |-> i,
                             text |-> Drop(s, 2), style |-> "List Bullet"]>>
                /\ (d = 1 /\ StartsWith(Drop(s, 1), ". ")) =>
                      BlockEventsAt(i) =
                          <<[op |-> "add_paragraph", at |-> i,
                             text |-> Drop(s, 3), style |-> "List Number"]>>
                /\ (d >= 2 /\ StartsWith(Drop(s, d), ". ")) =>
                      BlockEventsAt(i) =
                          <<[op |-> "add_paragraph", at |-> i,
                             text |-> s, style |-> "None"]>>

\* One run with "1. item" as an ordered item and "10. item" as a paragraph.
C9_Witness ==
    /\ pc = "saved"
    /\ \E n \in 1..Len(events) :
          /\ events[n].op = "add_paragraph"
          /\ events[n].style = "List Number"
          /\ events[n].text = "item"
    /\ \E n \in 1..Len(events) :
          /\ events[n].op = "add_paragraph"
          /\ events[n].style = "None"
          /\ events[n].text = "10. item"

\* The input is the header row, the divider row and the body row of C10.
C10_Input ==
    /\ Len(lines) = 4
    /\ RStripEOL(lines[1]) = "|A|B|"
    /\ RStripEOL(lines[2]) = "|---|---|"
    /\ RStripEOL(lines[3]) = "|1|2|"

(* C10: the lines "|A|B|", "|---|---|", "|1|2|" yield exactly one          *)
(* add_table call, with 2 columns, whose row data is the header row        *)
(* ["A","B"] followed by the one data row ["1","2"]: the divider row is    *)
(* not in it.                                                              *)
C10_HeaderDividerBody ==
    (C10_Input /\ pc = "saved") =>
        EventsOf("add_table") =
            <<[op |-> "add_table", at |-> 4, rows |-> 2, cols |-> 2,
               data |-> << <<"A", "B">>, <<"1", "2">> >>]>>

C10_Witness ==
    /\ C10_Input
    /\ pc = "saved"
    /\ Len(EventsOf("add_table")) = 1

\* The path an image line names, resolved against the document's directory.
ExpectedImagePath(s) ==
    LET target == SubSeq(s, Find(s, "](", 1) + 2, Len(s) - 1)
    IN  IF Char(target, 1) = "/" THEN target ELSE MdDir \o "/" \o target

(* C11: an image line whose resolved target does not exist makes exactly   *)
(* one writer call, add_paragraph with a text that contains the resolved   *)
(* path; add_image is not called, nothing is raised and the loop goes on.  *)
C11_MissingImagePlaceholder ==
    \A i \in Consumed :
        handled[i].found = "no" =>
            /\ Len(BlockEventsAt(i)) = 1
            /\ BlockEventsAt(i)[1].op = "add_paragraph"
            /\ Contains(BlockEventsAt(i)[1].text,
                        ExpectedImagePath(StrippedLine(lines[i])))
            /\ pos > i

\* A run that saved after a missing relative image and a missing absolute one.
C11_Witness ==
    /\ pc = "saved"
    /\ Len(handled) >= 2
    /\ handled[1].found = "no"
    /\ handled[2].found = "no"
    /\ StrippedLine(lines[1]) = "![x](m.png)"
    /\ StrippedLine(lines[2]) = "![y](/abs.png)"
    /\ Len(EventsOf("add_image")) = 0

\* The heading that writer call n made carries a page break.
HeadingBreak(n) ==
    \E k \in 1..Len(doc) :
        /\ doc[k].kind = "heading"
        /\ doc[k].at = events[n].at
        /\ doc[k].page_break

\* The call leaves something in the document of the writer in use: every
\* block does, except an empty code block and, in PdfWriter, an image whose
\* insertion failed.
LeavesContent(e) ==
    CASE e.op = "add_code_block" -> e.lines # <<>>
      [] e.op = "add_image" -> e.inserted \/ writer_class = "DocxWriter"
      [] e.op = "save" -> FALSE
      [] OTHER -> TRUE

NoImageFailed ==
    \A m \in 1..Len(events) : events[m].op = "add_image" => events[m].inserted

(* C13 as stated: a heading at or below the break level carries a page     *)
(* break if and only if it is not the first block the parser emitted.      *)
(* Stated for the runs in which no image insertion failed.                 *)
C13_BreakUnlessFirstEmitted ==
    NoImageFailed =>
        \A n \in 1..Len(events) :
            (events[n].op = "add_heading" /\ events[n].level <= BreakLevel) =>
                (HeadingBreak(n) <=> n > 1)

(* C13 as amended: a heading carries a page break if and only if its level *)
(* is at or below the break level and an earlier call left something in    *)
(* the writer's document; an earlier empty code block, and in PdfWriter an *)
(* earlier image whose insertion failed, leave nothing.                    *)
C13_BreakUnlessDocumentEmpty ==
    \A n \in 1..Len(events) :
        events[n].op = "add_heading" =>
            (HeadingBreak(n) <=>
                /\ events[n].level <= BreakLevel
                /\ \E m \in 1..(n - 1) : LeavesContent(events[m]))

\* A heading at the break level that follows an empty code block and has no
\* page break, in a run that saved.
C13_Witness ==
    /\ pc = "saved"
    /\ Len(events) >= 3
    /\ events[1].op = "add_code_block"
    /\ events[1].lines = <<>>
    /\ events[2].op = "add_heading"
    /\ events[2].level <= BreakLevel
    /\ ~HeadingBreak(2)

(* C14: in both writers an add_image call that fails to insert the image   *)
(* returns normally and leaves a placeholder paragraph in the document.    *)
C14_FailedImagePlaceholder ==
    \A n \in 1..Len(events) :
        (events[n].op = "add_image" /\ ~events[n].inserted) =>
            \E k \in 1..Len(doc) :
                doc[k].kind = "placeholder" /\ doc[k].at = events[n].at

\* The same for DocxWriter alone.
C14_DocxFailedImagePlaceholder ==
    writer_class = "DocxWriter" => C14_FailedImagePlaceholder

----------------------------------------------------------------------------
(* C12.                                                                    *)

\* The input has no diagram fence and no image line.
NoDiagramNoImage ==
    \A i \in 1..Len(lines) :
        /\ ~IsMermaidFenceLine(StrippedLine(lines[i]))
        /\ ~IsImageLine(StrippedLine(lines[i]))

\* Both conversions of the pair have ended.
BothDone == first_run.done /\ pc \in {"saved", "raised"}

(* C12: for an input without diagram fences and image lines, the PdfWriter *)
(* conversion makes the same calls in the same order, with the same        *)
(* arguments, as the DocxWriter conversion of the same lines.              *)
C12_SameEventsBothWriters ==
    (BothDone /\ NoDiagramNoImage) => events = first_run.events

\* The same for the pairs in which neither conversion raised.
C12_SameEventsUnlessRaised ==
    (BothDone /\ NoDiagramNoImage /\ pc = "saved" /\ first_run.pc = "saved")
        => events = first_run.events

----------------------------------------------------------------------------
(* C15.                                                                    *)

\* The cases for which the claim gives exit code 1.
ExitOneCase ==
    \/ Len(argv) = 0
    \/ args.parsed = "ok" /\ ~args.found
    \/ args.parsed = "ok" /\ pc = "raised"

(* C15 as stated: the process exits with 1 when it is run without          *)
(* arguments, when the input file is missing or when convert_markdown      *)
(* raised, and with 0 in every other case.                                 *)
C15_ExitOneOrZero ==
    exit_code # <<>> => exit_code = IF ExitOneCase THEN <<1>> ELSE <<0>>

(* C15: the process exits with 1 when it is run without arguments, when    *)
(* the input file is missing or when convert_markdown raised; with 2 when  *)
(* the argument parser rejects the command line; with 0 in every other     *)
(* case.                                                                   *)
C15_ExitCodes ==
    exit_code # <<>> =>
        exit_code = IF ExitOneCase THEN <<1>>
                    ELSE IF args.parsed = "usage" THEN <<2>>
                    ELSE <<0>>

\* A conversion that raised after calls on the writer, exited with 1.
C15_Witness ==
    /\ exit_code = <<1>>
    /\ args.parsed = "ok"
    /\ pc = "raised"
    /\ Len(events) > 0

----------------------------------------------------------------------------
(* C16.                                                                    *)

\* The loop is over and a fence is still open.
EndsInsideFence ==
    pos > Len(lines) /\ (in_code_block \/ in_mermaid_block)

\* The last fence line of the input, 0 when there is none.  The flags change
\* at fence lines only, so every line after it went to the open fence.
LastFence ==
    LET fs == {i \in 1..Len(lines) : FenceAt(i)}
    IN  IF fs = {} THEN 0 ELSE CHOOSE i \in fs : \A j \in fs : j <= i

(* C16: when the input ends inside a code fence or a diagram fence, the    *)
(* lines after the last fence line, which are the ones the open fence      *)
(* accumulated, reach no writer call: they are in the buffer of the open   *)
(* fence, the only call after the last fence line is save, and save is     *)
(* made (it is enabled when the loop ends and is the last call after it).  *)
C16_OpenFenceDropped ==
    EndsInsideFence =>
        /\ \A i \in (LastFence + 1)..Len(lines) :
              /\ handled[i].branch \in {"code_append", "mermaid_append"}
              /\ EventsAt(i) = <<>>
        /\ \A n \in 1..Len(events) :
              events[n].at > LastFence => events[n].op = "save"
        /\ pc \in {"loop", "saved"}
        /\ pc = "loop" => ENABLED Save
        /\ pc = "saved" => /\ Len(EventsOf("save")) = 1
                           /\ events[Len(events)].op = "save"

\* A run that saved with a code fence still open and text in its buffer.
C16_Witness ==
    /\ pc = "saved"
    /\ in_code_block
    /\ ~in_mermaid_block
    /\ \E k \in 1..Len(code_buffer) : code_buffer[k] # ""
    /\ EventsOf("add_code_block") = <<>>

----------------------------------------------------------------------------
(* C17.                                                                    *)

CloseBranches == {"mermaid_close", "code_close"}

(* C17: after a fence line that closes a diagram fence or a code fence,    *)
(* both in_code_block and in_mermaid_block are false, and the next line    *)
(* that is no fence line is handled as a normal line (a table row or a     *)
(* line of the classification), not appended to a fence buffer.            *)
C17_CloseReturnsToNormal ==
    /\ (Len(handled) > 0 /\ handled[Len(handled)].branch \in CloseBranches)
          => (~in_code_block /\ ~in_mermaid_block)
    /\ \A i \in 1..(Len(handled) - 1) :
          (handled[i].branch \in CloseBranches /\ ~FenceAt(i + 1))
              => handled[i + 1].branch \in {"table_append", "block"}

----------------------------------------------------------------------------
(* The rows of a flush, from the history.                                  *)

\* The lines the table buffer holds when line j is taken: the lines before
\* j that were appended to it with no flushing line in between.
FlushedIdx(j) ==
    SelectSeq([k \in 1..(j - 1) |-> k],
              LAMBDA i : /\ handled[i].branch = "table_append"
                         /\ \A k \in (i + 1)..(j - 1) :
                               handled[k].branch # "block")

FlushedRows(j) ==
    [n \in 1..Len(FlushedIdx(j)) |-> StrippedLine(lines[FlushedIdx(j)[n]])]

TableEventsAt(j) == SelectSeq(events, LAMBDA e : e.at = j /\ e.op = "add_table")

\* The lines at which a flush ran to its end.
FlushedAt == {j \in 1..Len(handled) : handled[j].branch = "block"}

----------------------------------------------------------------------------
(* C18.                                                                    *)

\* The rows the claim keeps: all but the rows of separator characters only.
RowsWithContent(j) ==
    SelectSeq(FlushedRows(j), LAMBDA r : ~SeparatorOnly(r))

(* C18: a flush leaves out exactly the buffered rows that consist of       *)
(* separator characters only; the rows it passes to add_table are all the  *)
(* other buffered rows, in order, also those with "---" inside a cell.     *)
C18_OnlySeparatorRowsDropped ==
    \A j \in FlushedAt :
        RowsWithContent(j) # <<>> =>
            /\ Len(TableEventsAt(j)) = 1
            /\ TableEventsAt(j)[1].rows = Len(RowsWithContent(j))
            /\ TableEventsAt(j)[1].data =
                  [k \in 1..Len(RowsWithContent(j)) |->
                      RowCells(RowsWithContent(j)[k], TableEventsAt(j)[1].cols)]

----------------------------------------------------------------------------
(* C19.                                                                    *)

\* The real rows of a flush: the buffered rows the filter of line 582 keeps.
RealRows(j) == SelectSeq(FlushedRows(j), LAMBDA r : ~Contains(r, "---"))

\* The non-empty pieces of a row between its pipes.
NonEmptySegments(r) ==
    LET parts == Split(r, "|")
    IN  SelectSeq(parts, LAMBDA c : Len(c) > 0)

(* C19: every add_table call is rectangular.  cols is the number of non-   *)
(* empty pipe-delimited segments of the first real row, rows is the number *)
(* of rows in data, which is one per real row, and every row of data has   *)
(* cols cells: its own stripped segments, followed by "" when it has fewer *)
(* than cols and cut after cols when it has more.                          *)
C19_TablesRectangular ==
    \A n \in 1..Len(events) :
        events[n].op = "add_table" =>
            LET e == events[n]
                real == RealRows(e.at)
            IN  /\ real # <<>>
                /\ e.cols = Len(NonEmptySegments(real[1]))
                /\ e.rows = Len(e.data)
                /\ e.rows = Len(real)
                /\ \A k \in 1..e.rows :
                      /\ Len(e.data[k]) = e.cols
                      /\ \A i \in 1..e.cols :
                            e.data[k][i] =
                                IF i <= Len(NonEmptySegments(real[k]))
                                THEN Strip(NonEmptySegments(real[k])[i])
                                ELSE ""

\* A table of two columns with a padded row and a cut row.
C19_Witness ==
    \E n \in 1..Len(events) :
        /\ events[n].op = "add_table"
        /\ events[n].cols = 2
        /\ events[n].rows = 3
        /\ events[n].data[2] = <<"1", "">>
        /\ events[n].data[3] = <<"1", "2">>

----------------------------------------------------------------------------
(* C20.                                                                    *)

\* The cells of a row as the claim counts them: the pieces between the
\* pipes, without the empty piece before the first pipe and the empty piece
\* after the last one.
CellsBetweenPipes(r) ==
    LET parts == Split(r, "|")
        lead == IF parts[1] = "" THEN 1 ELSE 0
        trail == IF Len(parts) > lead /\ parts[Len(parts)] = "" THEN 1 ELSE 0
    IN  SubSeq(parts, lead + 1, Len(parts) - trail)

(* C20: in a row passed to add_table, cell i is the stripped text of the   *)
(* i-th piece between the pipes of its row, the bounding empty pieces set  *)
(* aside: an empty cell inside the row stays in its column.                *)
C20_EmptyCellKeepsColumn ==
    \A n \in 1..Len(events) :
        events[n].op = "add_table" =>
            \A k \in 1..events[n].rows :
                \A i \in 1..events[n].cols :
                    i <= Len(CellsBetweenPipes(RealRows(events[n].at)[k])) =>
                        events[n].data[k][i] =
                            Strip(CellsBetweenPipes(RealRows(events[n].at)[k])[i])

----------------------------------------------------------------------------
(* C22.                                                                    *)

\* The line that opened the fence the fence line j closed: the last line
\* before j taken by the branch open.
OpenedAt(j, open) ==
    LET os == {i \in 1..(j - 1) : handled[i].branch = open}
    IN  IF os = {} THEN j ELSE CHOOSE i \in os : \A k \in os : k <= i

\* The first and the last input line a writer call was made from: the rows
\* of a table, the fence lines of a code block or a diagram, the line itself
\* for any other block.
SourceFirst(e) ==
    IF e.op = "add_table" /\ FlushedIdx(e.at) # <<>>
    THEN FlushedIdx(e.at)[1]
    ELSE IF e.at <= Len(handled) /\ handled[e.at].branch = "code_close"
    THEN OpenedAt(e.at, "code_open")
    ELSE IF e.at <= Len(handled) /\ handled[e.at].branch = "mermaid_close"
    THEN OpenedAt(e.at, "mermaid_open")
    ELSE e.at

SourceLast(e) ==
    IF e.op = "add_table" /\ FlushedIdx(e.at) # <<>>
    THEN FlushedIdx(e.at)[Len(FlushedIdx(e.at))]
    ELSE e.at

(* C22: the writer calls are made in source order.  Of two blocks, the one *)
(* whose source lines all come before the source lines of the other is     *)
(* passed to the writer first; a table whose rows precede a code fence is  *)
(* passed before the code block of that fence.                             *)
C22_BlocksInSourceOrder ==
    \A m \in 1..Len(events) :
        \A n \in 1..Len(events) :
            (/\ events[m].op # "save"
             /\ events[n].op # "save"
             /\ SourceLast(events[m]) < SourceFirst(events[n])) => m < n

----------------------------------------------------------------------------
(* C23.                                                                    *)

(* C23: every add_table call has a column count of at least 1, so that no  *)
(* table aborts the conversion.                                            *)
C23_ColsAtLeastOne ==
    /\ \A n \in 1..Len(events) :
          events[n].op = "add_table" => events[n].cols >= 1
    /\ pc # "raised"

----------------------------------------------------------------------------
(* C24.                                                                    *)

BlockOps == {"add_heading", "add_paragraph", "add_quote", "add_image"}

(* C24: a line taken outside the fences that is no fence line and no table *)
(* row makes exactly one call of add_heading, add_paragraph, add_quote or  *)
(* add_image when it is not blank, and none when it is blank.              *)
C24_OneBlockPerLine ==
    \A i \in Consumed :
        handled[i].branch = "block" =>
            /\ ~FenceAt(i)
            /\ ~PipeAt(i)
            /\ IF StrippedLine(lines[i]) = ""
               THEN BlockEventsAt(i) = <<>>
               ELSE /\ Len(BlockEventsAt(i)) = 1
                    /\ BlockEventsAt(i)[1].op \in BlockOps

\* A run that saved after a blank line, a quote and a plain line.
C24_Witness ==
    /\ pc = "saved"
    /\ \E i \in Consumed :
          /\ i < Len(lines)
          /\ handled[i].branch = "block"
          /\ StrippedLine(lines[i]) = ""
    /\ \E i \in Consumed :
          /\ handled[i].branch = "block"
          /\ Len(BlockEventsAt(i)) = 1
          /\ BlockEventsAt(i)[1].op = "add_paragraph"
          /\ BlockEventsAt(i)[1].text = "p"

----------------------------------------------------------------------------
(* The inline formatters: DocxWriter.process_inline_formatting (lines      *)
(* 127-140) and PdfWriter._format_text (lines 389-400).                    *)

\* s.replace(old, new)
RECURSIVE Replace(_, _, _)
Replace(s, old, new) ==
    LET i == Find(s, old, 1)
    IN  IF i = 0 THEN s
        ELSE SubSeq(s, 1, i - 1) \o new
                 \o Replace(Drop(s, i + Len(old) - 1), old, new)

\* html.escape(s), quote=True: & first, then < > " '.
HtmlEscape(s) ==
    Replace(Replace(Replace(Replace(Replace(s, "&", "&amp;"),
                                    "<", "&lt;"), ">", "&gt;"),
                    "\"", "&quot;"), "'", "&#x27;")

\* The pattern \*\*.*?\*\* tried at index i of s: the index of the last
\* character of the match, 0 when it does not match there.  The lazy .*?
\* stops at the first ** that follows and never crosses a line break.
MatchEnd(s, i) ==
    IF StartsWith(Drop(s, i - 1), "**") /\ Find(s, "**", i + 2) # 0
       /\ ~Contains(SubSeq(s, i + 2, Find(s, "**", i + 2) - 1), "\n")
    THEN Find(s, "**", i + 2) + 1
    ELSE 0

\* The start of the leftmost match in s, 0 when there is none.
FirstMatch(s) ==
    LET hits == {i \in 1..Len(s) : MatchEnd(s, i) # 0}
    IN  IF hits = {} THEN 0 ELSE CHOOSE i \in hits : \A j \in hits : i <= j

\* re.split(r'(\*\*.*?\*\*)', s)
RECURSIVE ReSplit(_)
ReSplit(s) ==
    LET i == FirstMatch(s)
    IN  IF i = 0 THEN <<s>>
        ELSE <<SubSeq(s, 1, i - 1), SubSeq(s, i, MatchEnd(s, i))>>
                 \o ReSplit(Drop(s, MatchEnd(s, i)))

\* Line 133.
IsBoldPart(part) ==
    StartsWith(part, "**") /\ EndsWith(part, "**") /\ Len(part) >= 4

\* Lines 132-140: the runs added to the paragraph, in order.
RECURSIVE PartRuns(_)
PartRuns(parts) ==
    IF parts = <<>> THEN <<>>
    ELSE (IF IsBoldPart(Head(parts))
          THEN <<[text |-> SubSeq(Head(parts), 3, Len(Head(parts)) - 2),
                  bold |-> TRUE]>>
          ELSE IF Head(parts) # ""
          THEN <<[text |-> Head(parts), bold |-> FALSE]>>
          ELSE <<>>)
         \o PartRuns(Tail(parts))

process_inline_formatting(text) ==
    PartRuns(ReSplit(Replace(text, "<br>", "\n")))

\* Line 398; the digits stand for the colour of the configuration.
HexColor == "#rrggbb"

BoldOpen == "<font color=\"" \o HexColor \o "\"><b>"

BoldClose == "</b></font>"

\* re.sub(r'\*\*(.*?)\*\*', ..., s) of line 399.
RECURSIVE ReSub(_)
ReSub(s) ==
    LET i == FirstMatch(s)
    IN  IF i = 0 THEN s
        ELSE SubSeq(s, 1, i - 1) \o BoldOpen
                 \o SubSeq(s, i + 2, MatchEnd(s, i) - 2) \o BoldClose
                 \o ReSub(Drop(s, MatchEnd(s, i)))

format_text(text) ==
    ReSub(Replace(HtmlEscape(text), "&lt;br&gt;", "<br/>"))

\* The pieces the formatted texts are put together from.
InlinePool == {"**", "a", "<br>", "&"}

RECURSIVE Concat(_)
Concat(ts) == IF ts = <<>> THEN "" ELSE Head(ts) \o Concat(Tail(ts))

InlineTexts == {Concat(ts) : ts \in SeqsUpTo(InlinePool, MaxInlineTokens)}

InitInline ==
    /\ inline \in {[NoInline EXCEPT !.text = t] : t \in InlineTexts}
    /\ writer_class = "DocxWriter"
    /\ argv = <<>>
    /\ args = NoArgs
    /\ exit_code = <<>>
    /\ first_run = NoRun
    /\ lines = <<"">>
    /\ pos = 1
    /\ in_code_block = FALSE
    /\ in_mermaid_block = FALSE
    /\ mermaid_lines = <<>>
    /\ table_lines = <<>>
    /\ code_buffer = <<>>
    /\ pc = "inline"
    /\ events = <<>>
    /\ doc = <<>>
    /\ handled = <<>>

\* DocxWriter formats the text.
DocxFormat ==
    /\ pc = "inline"
    /\ "DocxWriter" \notin inline.done
    /\ inline' = [inline EXCEPT
                     !.runs = process_inline_formatting(inline.text),
                     !.done = @ \cup {"DocxWriter"}]
    /\ UNCHANGED <<writer_class, lines, pos, in_code_block, in_mermaid_block,
                   mermaid_lines, table_lines, code_buffer, pc, events, doc,
                   handled, argv, args, exit_code, first_run>>

\* PdfWriter formats the text.
PdfFormat ==
    /\ pc = "inline"
    /\ "PdfWriter" \notin inline.done
    /\ inline' = [inline EXCEPT
                     !.markup = format_text(inline.text),
                     !.done = @ \cup {"PdfWriter"}]
    /\ UNCHANGED <<writer_class, lines, pos, in_code_block, in_mermaid_block,
                   mermaid_lines, table_lines, code_buffer, pc, events, doc,
                   handled, argv, args, exit_code, first_run>>

NextInline == DocxFormat \/ PdfFormat

SpecInline == InitInline /\ [][NextInline]_vars

----------------------------------------------------------------------------
(* C21.                                                                    *)

\* The spans of the markup of format_text: the text inside each bold tag
\* and the text between the tags, line breaks and entities put back.
Unescape(s) ==
    Replace(Replace(Replace(Replace(Replace(Replace(s,
        "<br/>", "\n"), "&lt;", "<"), "&gt;", ">"), "&quot;", "\""),
        "&#x27;", "'"), "&amp;", "&")

RECURSIVE MarkupSpans(_)
MarkupSpans(m) ==
    LET i == Find(m, BoldOpen, 1)
        j == Find(m, BoldClose, i + Len(BoldOpen))
        plain == IF i = 0 THEN m ELSE SubSeq(m, 1, i - 1)
    IN  (IF plain = "" THEN <<>>
         ELSE <<[text |-> Unescape(plain), bold |-> FALSE]>>)
        \o (IF i = 0 THEN <<>>
            ELSE <<[text |-> Unescape(SubSeq(m, i + Len(BoldOpen), j - 1)),
                    bold |-> TRUE]>>
                 \o MarkupSpans(Drop(m, j + Len(BoldClose) - 1)))

BothFormatted == inline.done = {"DocxWriter", "PdfWriter"}

(* C21: for every text, the two formatters mark the same substrings as     *)
(* bold and leave the same characters plain, also when "<br>" stands       *)
(* between or inside the ** markers.                                       *)
C21_SameBoldSpans ==
    BothFormatted => inline.runs = MarkupSpans(inline.markup)

\* The same for the texts without "<br>".
C21_SameBoldSpansNoBreak ==
    (BothFormatted /\ ~Contains(inline.text, "<br>"))
        => inline.runs = MarkupSpans(inline.markup)

\* An unmatched ** makes no bold span in either writer.
C21_UnmatchedNoBold ==
    (BothFormatted /\ ~Contains(inline.text, "<br>")
       /\ Find(inline.text, "**", Find(inline.text, "**", 1) + 2) = 0)
        => /\ \A k \in 1..Len(inline.runs) : ~inline.runs[k].bold
           /\ ~Contains(inline.markup, "<b>")

====
